---- MODULE Spec2Model ----
(***************************************************************************)
(* Model of src/shell.py: the VirtualFileSystem built from a tar archive   *)
(* (load_tar), path resolution against the tree and the current_path       *)
(* cursor (get_node), and the operations list_dir, change_dir,             *)
(* print_working_directory, read_tail and the shell's cmd_tail.            *)
(*                                                                         *)
(* A Python str is a sequence of one-character strings: "/a" is            *)
(* <<"/", "a">>.  A VirtualFile object is identified by the sequence of    *)
(* child names leading to it from self.root (the tree has no sharing), so  *)
(* the tree is a function from such sequences to the objects' fields.      *)
(***************************************************************************)
EXTENDS Integers, Sequences, FiniteSets, TLC

\* ------------------------------------------------------------- bounds
\* Longest archive (number of members returned by tar.getmembers()).
MaxMembers == 2
\* Most '/'-separated segments in a path typed at the prompt.
MaxSegs == 3
\* Line counts given to tail range over -MaxCount..MaxCount (and the default).
MaxCount == 2

\* Most separators in the value a change_dir may leave in current_path; a
\* change_dir that would leave a longer one is not taken.
MaxDepth == 3

\* The default of read_tail's `lines` and of cmd_tail's num_lines.
DefaultLines == 10

\* ------------------------------------------------------------- str
Str(c) == <<c>>
Empty == << >>
Slash == <<"/">>

\* ord() of the characters the model uses.
Ord(c) ==
  CASE c = "\n" -> 10
    [] c = "." -> 46
    [] c = "/" -> 47
    [] c = "a" -> 97
    [] c = "b" -> 98
    [] c = "x" -> 120
    [] c = "y" -> 121
    [] c = "z" -> 122

\* Python's s < t on str: lexicographic by code point.
RECURSIVE StrLess(_, _)
StrLess(s, t) ==
  IF t = Empty THEN FALSE
  ELSE IF s = Empty THEN TRUE
  ELSE IF Ord(Head(s)) < Ord(Head(t)) THEN TRUE
  ELSE IF Ord(Head(s)) > Ord(Head(t)) THEN FALSE
  ELSE StrLess(Tail(s), Tail(t))

\* s.startswith(p)
StartsWith(s, p) == Len(s) >= Len(p) /\ SubSeq(s, 1, Len(p)) = p

\* s.lstrip('/')
RECURSIVE LStrip(_)
LStrip(s) == IF s # Empty /\ Head(s) = "/" THEN LStrip(Tail(s)) ELSE s

\* s.rstrip('/')
RECURSIVE RStrip(_)
RStrip(s) ==
  IF s # Empty /\ s[Len(s)] = "/" THEN RStrip(SubSeq(s, 1, Len(s) - 1)) ELSE s

\* s.strip('/')
Strip(s) == RStrip(LStrip(s))

\* s.split(sep) for a one-character sep: always at least one part.
RECURSIVE SplitFrom(_, _, _, _)
SplitFrom(s, sep, i, cur) ==
  IF i > Len(s) THEN <<cur>>
  ELSE IF s[i] = sep THEN <<cur>> \o SplitFrom(s, sep, i + 1, Empty)
  ELSE SplitFrom(s, sep, i + 1, Append(cur, s[i]))

Split(s, sep) == SplitFrom(s, sep, 1, Empty)

\* sep.join(parts)
RECURSIVE Join(_, _)
Join(parts, sep) ==
  IF parts = << >> THEN Empty
  ELSE IF Len(parts) = 1 THEN parts[1]
  ELSE parts[1] \o sep \o Join(Tail(parts), sep)

\* str.splitlines() on text whose only line boundary is "\n": no empty last
\* line after a final boundary, and no line at all for the empty string.
SplitLines(s) ==
  IF s = Empty THEN << >>
  ELSE IF s[Len(s)] = "\n" THEN Split(SubSeq(s, 1, Len(s) - 1), "\n")
  ELSE Split(s, "\n")

\* seq[k:] for any integer k (a negative k counts from the end).
SliceFrom(seq, k) ==
  LET n == Len(seq)
      start == IF k < 0 THEN (IF n + k < 0 THEN 0 ELSE n + k)
               ELSE (IF k > n THEN n ELSE k)
  IN SubSeq(seq, start + 1, n)

\* ------------------------------------------------------------- posixpath
\* posixpath.isabs(path)
IsAbs(path) == StartsWith(path, Slash)

\* posixpath.join(a, b)
PathJoin(a, b) ==
  IF StartsWith(b, Slash) THEN b
  ELSE IF a = Empty \/ a[Len(a)] = "/" THEN a \o b
  ELSE a \o Slash \o b

\* p.rfind('/') + 1
RECURSIVE RFindSlash(_, _)
RFindSlash(p, i) ==
  IF i = 0 THEN 0 ELSE IF p[i] = "/" THEN i ELSE RFindSlash(p, i - 1)

AllSlashes(s) == \A i \in 1..Len(s) : s[i] = "/"

\* Faulty variant of DirName: the leading separators are lost, so the
\* directory portion of an absolute path is a relative one.  C20 rejects it.
DirName_Relative(p) == LStrip(RStrip(SubSeq(p, 1, RFindSlash(p, Len(p)))))

\* posixpath.dirname(p)
DirName(p) ==
  LET head == SubSeq(p, 1, RFindSlash(p, Len(p)))
  IN IF head # Empty /\ ~AllSlashes(head) THEN RStrip(head) ELSE head

\* The loop of posixpath.normpath over the components.
RECURSIVE NormComps(_, _, _, _)
NormComps(comps, i, initial_slashes, new_comps) ==
  IF i > Len(comps) THEN new_comps
  ELSE
    LET comp == comps[i] IN
    IF comp = Empty \/ comp = Str(".")
      THEN NormComps(comps, i + 1, initial_slashes, new_comps)
    ELSE IF \/ comp # <<".", ".">>
            \/ (initial_slashes = 0 /\ new_comps = << >>)
            \/ (new_comps # << >> /\ new_comps[Len(new_comps)] = <<".", ".">>)
      THEN NormComps(comps, i + 1, initial_slashes, Append(new_comps, comp))
    ELSE IF new_comps # << >>
      THEN NormComps(comps, i + 1, initial_slashes,
                     SubSeq(new_comps, 1, Len(new_comps) - 1))
    ELSE NormComps(comps, i + 1, initial_slashes, new_comps)

\* posixpath.normpath(path): exactly two leading slashes are kept as two.
NormPath(path) ==
  IF path = Empty THEN Str(".")
  ELSE
    LET initial_slashes ==
          IF ~StartsWith(path, Slash) THEN 0
          ELSE IF StartsWith(path, <<"/", "/">>)
                  /\ ~StartsWith(path, <<"/", "/", "/">>) THEN 2
          ELSE 1
        joined == Join(NormComps(Split(path, "/"), 1, initial_slashes, << >>), Slash)
        res == IF initial_slashes = 2 THEN <<"/", "/">> \o joined
               ELSE IF initial_slashes = 1 THEN Slash \o joined
               ELSE joined
    IN IF res = Empty THEN Str(".") ELSE res

\* ------------------------------------------------------------- inputs
SeqsUpTo(S, n) == UNION {[1..k -> S] : k \in 1..n}

\* The segments of the paths typed at the prompt: empty (so that a path can
\* start or end with '/', or hold '//'), '.', '..' and two names.
PathSegs == {Empty, Str("."), <<".", ".">>, Str("a"), Str("b")}

\* Paths that go into a child, back with '..' and then two names down: the
\* shortest ones after which current_path can name a path whose directory
\* portion names nothing.
DetourPaths ==
  {Join(<<n, <<".", ".">>, x, y>>, Slash) :
     n \in {Str("a")}, x \in {Str("b")}, y \in {Str("a"), Str("b")}}

Paths == {Join(segs, Slash) : segs \in SeqsUpTo(PathSegs, MaxSegs)} \cup DetourPaths

LineCounts == ((0 - MaxCount)..MaxCount) \cup {DefaultLines}

\* One archive member: TarInfo.name, TarInfo.isdir() and, for a regular
\* file, the decoded text of tar.extractfile(member).read().
Member(name, isdir, text) == [name |-> name, isdir |-> isdir, text |-> text]

Members ==
  { Member(<<"a">>, TRUE, Empty),
    Member(<<"a">>, FALSE, <<"x", "\n">>),
    Member(<<"a", "/", "a">>, TRUE, Empty),
    Member(<<"a", "/", "b">>, FALSE, <<"x", "\n", "y", "\n", "z">>),
    Member(<<"b">>, TRUE, Empty),
    Member(<<"b", "/", "a">>, TRUE, Empty),
    Member(<<"a", "/", ".">>, TRUE, Empty),
    Member(<<"a", "/", "/", "b">>, FALSE, Empty),
    Member(<<".", "/">>, TRUE, Empty) }

Archives == {<< >>} \cup SeqsUpTo(Members, MaxMembers)

\* ------------------------------------------------------------- the tree
\* VirtualFile(name, is_dir): content starts empty; its children dict is the
\* set of tree keys one name longer.
VirtualFile(name, is_dir) == [name |-> name, is_dir |-> is_dir, content |-> Empty]

RootKey == << >>

\* VirtualFileSystem.__init__ before load_tar: a lone root directory.
EmptyTree == [k \in {RootKey} |-> VirtualFile(Slash, TRUE)]

IsPrefix(p, q) == Len(p) <= Len(q) /\ SubSeq(q, 1, Len(p)) = p

\* node.children.keys() of the node at key `at`.
Children(tree, at) ==
  {k[Len(k)] : k \in {q \in DOMAIN tree : Len(q) = Len(at) + 1 /\ IsPrefix(at, q)}}

\* The loop over parts[1:-1]: a missing intermediate name becomes a new
\* directory; an existing child (of either kind) is walked into as it is.
RECURSIVE MakeDirs(_, _, _)
MakeDirs(tree, mid, i) ==
  IF i > Len(mid) THEN tree
  ELSE
    LET key == SubSeq(mid, 1, i) IN
    IF key \in DOMAIN tree THEN MakeDirs(tree, mid, i + 1)
    ELSE MakeDirs([k \in DOMAIN tree \cup {key} |->
                     IF k = key THEN VirtualFile(mid[i], TRUE) ELSE tree[k]],
                  mid, i + 1)

\* current.children[name] = node: the slot is replaced by a fresh object
\* with an empty children dict, so whatever hung below the old one is gone.
SetChild(tree, key, node) ==
  LET keep == {k \in DOMAIN tree : ~IsPrefix(key, k)} IN
  [k \in keep \cup {key} |-> IF k = key THEN node ELSE tree[k]]

\* One iteration of the loop of load_tar.
LoadMember(tree, member) ==
  IF member.name \in {Str("."), <<".", "/">>, Empty} THEN tree
  ELSE
    LET path == Slash \o Strip(member.name)
        parts == Split(path, "/")
        last_part == parts[Len(parts)]
        mid == SubSeq(parts, 2, Len(parts) - 1)
        vf == IF member.isdir THEN VirtualFile(last_part, TRUE)
              ELSE [VirtualFile(last_part, FALSE) EXCEPT !.content = member.text]
    IN IF last_part = Empty THEN tree
       ELSE SetChild(MakeDirs(tree, mid, 1), Append(mid, last_part), vf)

\* load_tar: the members in archive order.
RECURSIVE LoadFrom(_, _, _)
LoadFrom(tree, members, i) ==
  IF i > Len(members) THEN tree
  ELSE LoadFrom(LoadMember(tree, members[i]), members, i + 1)

load_tar(members) == LoadFrom(EmptyTree, members, 1)

\* ------------------------------------------------------------- get_node
\* What a call of get_node ends in: a node, None, or a raised AttributeError.
Node(at) == [k |-> "node", at |-> at]
None == [k |-> "None", at |-> RootKey]
Raised == [k |-> "Raise", at |-> RootKey]

RECURSIVE get_node(_, _, _)
RECURSIVE Walk(_, _, _, _, _)

\* `current = parent if parent else self.root`, then the rest of the loop.
WalkFromParent(tree, cur, parts, i, parent) ==
  Walk(tree, cur, parts, i, IF parent.k = "None" THEN Node(RootKey) ELSE parent)

\* `current = current.children.get(part)`, then the rest of the loop; on a
\* `current` that is None the attribute access raises.
WalkInto(tree, cur, parts, i, current, child) ==
  IF current.k = "None" THEN Raised
  ELSE IF child \in DOMAIN tree THEN Walk(tree, cur, parts, i, Node(child))
  ELSE None

\* Faulty variant of Walk: a '..' met at the root ends the call with None
\* instead of staying at the root.  C18 rejects it.
Walk_RootHasNoParent(tree, cur, parts, i, current) ==
  IF current.k = "Raise" THEN Raised
  ELSE IF i > Len(parts) THEN current
  ELSE IF parts[i] = <<".", ".">> THEN
    IF current = Node(RootKey) THEN None
    ELSE WalkFromParent(tree, cur, parts, i + 1, get_node(tree, cur, DirName(cur)))
  ELSE IF parts[i] = Str(".") \/ parts[i] = Empty
    THEN Walk(tree, cur, parts, i + 1, current)
  ELSE WalkInto(tree, cur, parts, i + 1, current, Append(current.at, parts[i]))

\* The loop over parts from index i with `current` the node reached so far.
Walk(tree, cur, parts, i, current) ==
  IF current.k = "Raise" THEN Raised
  ELSE IF i > Len(parts) THEN current
  ELSE IF parts[i] = <<".", ".">> THEN
    IF current = Node(RootKey) THEN Walk(tree, cur, parts, i + 1, current)
    ELSE WalkFromParent(tree, cur, parts, i + 1, get_node(tree, cur, DirName(cur)))
  ELSE IF parts[i] = Str(".") \/ parts[i] = Empty
    THEN Walk(tree, cur, parts, i + 1, current)
  ELSE WalkInto(tree, cur, parts, i + 1, current, Append(current.at, parts[i]))

\* get_node from `if path == "":` on, with the starting node chosen.
GetNodeFrom(tree, cur, path, current) ==
  IF current.k = "Raise" THEN Raised
  ELSE IF path = Empty THEN current
  ELSE Walk(tree, cur, Split(path, "/"), 1, current)

get_node(tree, cur, path) ==
  IF IsAbs(path) THEN GetNodeFrom(tree, cur, LStrip(path), Node(RootKey))
  ELSE GetNodeFrom(tree, cur, path, get_node(tree, cur, cur))

\* `parent if parent else self.root`
ParentOrRoot(parent) == IF parent.k = "None" THEN Node(RootKey) ELSE parent

\* The paths on which the loop over parts, from index i with `current` the
\* node reached so far, calls get_node again: the cursor's directory
\* portion at every '..' met away from the root.
RECURSIVE WalkCalls(_, _, _, _, _)
WalkCalls(tree, cur, parts, i, current) ==
  IF current.k = "Raise" \/ i > Len(parts) THEN {}
  ELSE IF parts[i] = <<".", ".">> THEN
    IF current = Node(RootKey) THEN WalkCalls(tree, cur, parts, i + 1, current)
    ELSE {DirName(cur)}
           \cup WalkCalls(tree, cur, parts, i + 1,
                          ParentOrRoot(get_node(tree, cur, DirName(cur))))
  ELSE IF parts[i] = Str(".") \/ parts[i] = Empty
    THEN WalkCalls(tree, cur, parts, i + 1, current)
  ELSE IF current.k = "None" \/ Append(current.at, parts[i]) \notin DOMAIN tree THEN {}
  ELSE WalkCalls(tree, cur, parts, i + 1, Node(Append(current.at, parts[i])))

\* The paths on which a call get_node(path) calls get_node again itself:
\* the cursor for a relative path, and those of the loop.
SelfCalls(tree, cur, path) ==
  IF IsAbs(path)
    THEN IF LStrip(path) = Empty THEN {}
         ELSE WalkCalls(tree, cur, Split(LStrip(path), "/"), 1, Node(RootKey))
  ELSE {cur} \cup (IF path = Empty THEN {}
                   ELSE WalkCalls(tree, cur, Split(path, "/"), 1,
                                  get_node(tree, cur, cur)))

IsDir(tree, node) == node.k = "node" /\ tree[node.at].is_dir
IsFile(tree, node) == node.k = "node" /\ ~tree[node.at].is_dir

\* ------------------------------------------------------------- operations
\* sorted(keys)
RECURSIVE Sorted(_)
Sorted(S) ==
  IF S = {} THEN << >>
  ELSE LET m == CHOOSE x \in S : \A y \in S \ {x} : StrLess(x, y)
       IN <<m>> \o Sorted(S \ {m})

Result(status, val) == [status |-> status, val |-> val]

\* Faulty variant of ListDirOf: the keys in descending order.  C6 rejects it.
RECURSIVE Reverse(_)
Reverse(seq) == IF seq = << >> THEN << >> ELSE Append(Reverse(Tail(seq)), Head(seq))

ListDirOf_Descending(tree, node) ==
  IF node.k = "Raise" THEN Result("Raise", << >>)
  ELSE IF IsDir(tree, node)
    THEN Result("ok", Reverse(Sorted(Children(tree, node.at))))
  ELSE Result("None", << >>)

\* list_dir once node = self.get_node(path) is known.
ListDirOf(tree, node) ==
  IF node.k = "Raise" THEN Result("Raise", << >>)
  ELSE IF IsDir(tree, node) THEN Result("ok", Sorted(Children(tree, node.at)))
  ELSE Result("None", << >>)

list_dir(tree, cur, path) == ListDirOf(tree, get_node(tree, cur, path))

\* The value change_dir leaves in self.current_path when it succeeds.
NewPath(cur, path) ==
  LET norm == IF IsAbs(path) THEN NormPath(path) ELSE NormPath(PathJoin(cur, path))
  IN IF ~StartsWith(norm, Slash) THEN Slash \o norm ELSE norm

\* Faulty variant of ChangeDirOf: current_path is assigned before the node
\* is looked at.  C1 rejects it.
ChangeDirOf_AssignsFirst(tree, cur, path, node) ==
  IF node.k = "Raise" THEN Result("Raise", cur)
  ELSE IF IsDir(tree, node) THEN Result("True", NewPath(cur, path))
  ELSE Result("False", NewPath(cur, path))

\* change_dir once node = self.get_node(path) is known: status "True" or
\* "False" is the returned bool, val is self.current_path after the call.
ChangeDirOf(tree, cur, path, node) ==
  IF node.k = "Raise" THEN Result("Raise", cur)
  ELSE IF IsDir(tree, node) THEN Result("True", NewPath(cur, path))
  ELSE Result("False", cur)

change_dir(tree, cur, path) == ChangeDirOf(tree, cur, path, get_node(tree, cur, path))

print_working_directory(cur) == Result("ok", cur)

\* Faulty variant of ReadTailOf: content_lines[:lines], the first lines
\* instead of the last.  C5 rejects it.
ReadTailOf_FirstLines(tree, node, lines) ==
  IF node.k = "Raise" THEN Result("Raise", << >>)
  ELSE IF IsFile(tree, node)
    THEN Result("ok", Join(SubSeq(SplitLines(tree[node.at].content), 1,
                                  Len(SliceFrom(SplitLines(tree[node.at].content),
                                                0 - lines))),
                           Str("\n")))
  ELSE Result("None", << >>)

\* read_tail once node = self.get_node(path) is known.
ReadTailOf(tree, node, lines) ==
  IF node.k = "Raise" THEN Result("Raise", << >>)
  ELSE IF IsFile(tree, node)
    THEN Result("ok", Join(SliceFrom(SplitLines(tree[node.at].content), 0 - lines),
                           Str("\n")))
  ELSE Result("None", << >>)

read_tail(tree, cur, path, lines) == ReadTailOf(tree, get_node(tree, cur, path), lines)

\* ShellEmulator.cmd_tail from node = self.vfs.get_node(file_path) on, with
\* num_lines already parsed: what it prints, or "None" for 'cannot open'.
CmdTailOf(tree, node, num_lines) ==
  IF node.k = "Raise" THEN Result("Raise", << >>)
  ELSE IF ~IsFile(tree, node) THEN Result("None", << >>)
  ELSE
    LET lines == SplitLines(tree[node.at].content)
        tail_lines == IF num_lines > 0 THEN SliceFrom(lines, 0 - num_lines) ELSE lines
    IN Result("ok", Join(tail_lines, Str("\n")))

cmd_tail(tree, cur, file_path, num_lines) ==
  CmdTailOf(tree, get_node(tree, cur, file_path), num_lines)

\* ------------------------------------------------------------- state
VARIABLES
  members,       \* tar.getmembers() of the archive still open in load_tar
  root,          \* the tree under self.root
  current_path,  \* self.current_path
  pc,            \* "init", "prompt", "ran" or "crashed"
  last           \* the call made from the last prompt and what it gave

vars == <<members, root, current_path, pc, last>>

\* A call as the history variable keeps it: the operation, its arguments,
\* what get_node gave for the path, the result and the cursor before it.
Call(op, path, lines, node, res, before) ==
  [op |-> op, path |-> path, lines |-> lines, node |-> node,
   status |-> res.status, val |-> res.val, before |-> before]

NoCall == Call("none", Empty, 0, None, Result("none", << >>), Slash)

\* VirtualFileSystem.__init__ up to the call of load_tar.
Init ==
  /\ members \in Archives
  /\ root = EmptyTree
  /\ current_path = Slash
  /\ pc = "init"
  /\ last = NoCall

\* load_tar: every member in order, then the archive is closed.
LoadTar ==
  /\ pc = "init"
  /\ root' = load_tar(members)
  /\ members' = << >>
  /\ pc' = "prompt"
  /\ UNCHANGED <<current_path, last>>

\* The number of separators in a path.
Depth(p) == Len(Split(p, "/")) - 1

\* An AttributeError is caught nowhere: it ends run().
After(res) == IF res.status = "Raise" THEN "crashed" ELSE "ran"

\* What every call leaves behind: the history and where run() goes next.
Returns(op, path, lines, node, res, before) ==
  /\ last' = Call(op, path, lines, node, res, before)
  /\ pc' = After(res)

\* Faulty variant of ListDir: the listing is taken by moving into the
\* directory.  C8 rejects it.
ListDir_Moves ==
  /\ pc = "prompt"
  /\ \E path \in Paths :
       \E node \in {get_node(root, current_path, path)} :
         /\ Depth(ChangeDirOf(root, current_path, path, node).val) <= MaxDepth
         /\ current_path' = ChangeDirOf(root, current_path, path, node).val
         /\ Returns("list_dir", path, 0, node, ListDirOf(root, node), current_path)
  /\ UNCHANGED <<members, root>>

ListDir ==
  /\ pc = "prompt"
  /\ \E path \in Paths :
       \E node \in {get_node(root, current_path, path)} :
         Returns("list_dir", path, 0, node, ListDirOf(root, node), current_path)
  /\ UNCHANGED <<members, root, current_path>>

ChangeDir ==
  /\ pc = "prompt"
  /\ \E path \in Paths :
       \E node \in {get_node(root, current_path, path)} :
         \E res \in {ChangeDirOf(root, current_path, path, node)} :
           /\ Depth(res.val) <= MaxDepth
           /\ current_path' = res.val
           /\ Returns("change_dir", path, 0, node, res, current_path)
  /\ UNCHANGED <<members, root>>

PrintWorkingDirectory ==
  /\ pc = "prompt"
  /\ Returns("print_working_directory", Empty, 0, None,
             print_working_directory(current_path), current_path)
  /\ UNCHANGED <<members, root, current_path>>

\* The path enters a tail only through the node it resolves to, so the
\* history keeps that node and not the path's spelling.
ReadTail ==
  /\ pc = "prompt"
  /\ \E path \in Paths :
       \E node \in {get_node(root, current_path, path)} :
         \E lines \in LineCounts :
           Returns("read_tail", Empty, lines, node, ReadTailOf(root, node, lines),
                   current_path)
  /\ UNCHANGED <<members, root, current_path>>

CmdTail ==
  /\ pc = "prompt"
  /\ \E path \in Paths :
       \E node \in {get_node(root, current_path, path)} :
         \E num_lines \in LineCounts :
           Returns("cmd_tail", Empty, num_lines, node,
                   CmdTailOf(root, node, num_lines), current_path)
  /\ UNCHANGED <<members, root, current_path>>

\* The loop of run(): back to input() for the next command line.
Run ==
  /\ pc = "ran"
  /\ pc' = "prompt"
  /\ last' = NoCall
  /\ UNCHANGED <<members, root, current_path>>

Next ==
  \/ LoadTar
  \/ ListDir
  \/ ChangeDir
  \/ PrintWorkingDirectory
  \/ ReadTail
  \/ CmdTail
  \/ Run

Spec == Init /\ [][Next]_vars

\* ------------------------------------------------------------- claims
IsChangeDir == pc # "prompt" /\ last.op = "change_dir"
IsListDir == pc # "prompt" /\ last.op = "list_dir"
IsTail == pc # "prompt" /\ last.op \in {"read_tail", "cmd_tail"}

\* C1: a change_dir whose path resolves to nothing or to a file returns
\* False and leaves current_path what it was before the call.
C1_FailedChangeDirKeepsCursor ==
  (IsChangeDir /\ (last.node.k = "None" \/ IsFile(root, last.node)))
    => (last.status = "False" /\ current_path = last.before)

\* C1 witness: away from the root, a change_dir onto a file has failed.
C1_Witness ==
  /\ IsChangeDir
  /\ IsFile(root, last.node)
  /\ last.before # Slash
  /\ last.status = "False"

\* An absolute normalized path: one leading separator, then segments none of
\* which is empty, '.' or '..' (so no trailing separator), or the root.
IsNormalizedAbs(p) ==
  \/ p = Slash
  \/ /\ StartsWith(p, Slash)
     /\ \A seg \in {Split(Tail(p), "/")[i] : i \in 1..Len(Split(Tail(p), "/"))} :
          seg \notin {Empty, Str("."), <<".", ".">>}

\* C2: whatever calls were made, current_path is an absolute normalized
\* path: exactly one leading separator, no empty, '.' or '..' segment, no
\* trailing separator unless it is the root.
C2_CursorNormalized == IsNormalizedAbs(current_path)

\* C3: no call of list_dir, change_dir, print_working_directory or a tail
\* ends in a raised fault; each returns its payload or a not-found value.
C3_NeverRaises == last.status # "Raise" /\ pc # "crashed"

\* The whole file as a tail gives it back: its lines joined by newlines.
AllLines(tree, node) == Join(SplitLines(tree[node.at].content), Str("\n"))

\* C4: a tail of a file with a line count of zero or less returns every
\* line of the file.
C4_NonPositiveCountGivesWholeFile ==
  (IsTail /\ IsFile(root, last.node) /\ last.lines <= 0)
    => (last.status = "ok" /\ last.val = AllLines(root, last.node))

\* The last min(n, T) of T lines, in their order.
LastLines(ls, n) ==
  LET m == IF n < Len(ls) THEN n ELSE Len(ls)
  IN SubSeq(ls, Len(ls) - m + 1, Len(ls))

\* C5: a tail with a positive count n of a file of T lines returns exactly
\* its last min(n, T) lines in order; of a directory or of a path that
\* resolves to nothing it returns the not-found value.
C5_PositiveCountGivesLastLines ==
  (IsTail /\ last.lines > 0) =>
    /\ IsFile(root, last.node) =>
         /\ last.status = "ok"
         /\ last.val = Join(LastLines(SplitLines(root[last.node.at].content),
                                      last.lines), Str("\n"))
    /\ (IsDir(root, last.node) \/ last.node.k = "None") => last.status = "None"

\* C5 witness: read_tail(path, 2) of the three-line file has returned its
\* last two lines.
C5_Witness ==
  /\ IsTail
  /\ last.op = "read_tail"
  /\ last.lines = 2
  /\ IsFile(root, last.node)
  /\ Len(SplitLines(root[last.node.at].content)) = 3
  /\ last.val = <<"y", "\n", "z">>

\* C6: list_dir of a file or of a path that resolves to nothing returns the
\* not-found value; of a directory it returns exactly the directory's child
\* names, strictly ascending (so none twice), and the empty sequence for an
\* empty directory.
C6_ListDirSortedChildren ==
  IsListDir =>
    /\ (IsFile(root, last.node) \/ last.node.k = "None") => last.status = "None"
    /\ IsDir(root, last.node) =>
         /\ last.status = "ok"
         /\ {last.val[i] : i \in 1..Len(last.val)} = Children(root, last.node.at)
         /\ \A i \in 1..Len(last.val) : \A j \in 1..Len(last.val) :
              i < j => StrLess(last.val[i], last.val[j])

\* C6 witness: a directory with two children has been listed.
C6_Witness ==
  /\ IsListDir
  /\ IsDir(root, last.node)
  /\ last.status = "ok"
  /\ Len(last.val) = 2

\* change_dir(s) then change_dir('..') from cursor cur: both succeed and the
\* cursor is cur again.
RoundTrip(tree, cur, s) ==
  /\ change_dir(tree, cur, s).status = "True"
  /\ change_dir(tree, change_dir(tree, cur, s).val, <<".", ".">>).status = "True"
  /\ change_dir(tree, change_dir(tree, cur, s).val, <<".", ".">>).val = cur

\* The names of the children of the node the cursor denotes that are
\* directories.
ChildDirs(tree, cur) ==
  IF get_node(tree, cur, cur).k # "node" THEN {}
  ELSE {s \in Children(tree, get_node(tree, cur, cur).at) :
          tree[Append(get_node(tree, cur, cur).at, s)].is_dir}

\* C7: from any reachable cursor and any child directory s of the node it
\* denotes, change_dir(s) and then change_dir('..') both succeed and leave
\* the cursor where it was.
C7_ChildThenParentRoundTrip ==
  pc = "prompt" => \A s \in ChildDirs(root, current_path) :
                     RoundTrip(root, current_path, s)

\* C8: once the archive is loaded the tree never changes, and current_path
\* changes only in a change_dir that returns True; so after a list_dir the
\* same path resolves to the node the call resolved it to.
C8_OnlyChangeDirMoves ==
  [][ /\ pc # "init" => root' = root
      /\ current_path' # current_path =>
           (last'.op = "change_dir" /\ last'.status = "True")
      /\ (pc = "prompt" /\ last'.op = "list_dir") =>
           get_node(root', current_path', last'.path) = last'.node ]_vars

\* C8 witness: away from the root a read_tail has returned a file's lines
\* and the cursor is what it was before the call.
C8_Witness ==
  /\ IsTail
  /\ last.op = "read_tail"
  /\ last.status = "ok"
  /\ last.before # Slash
  /\ current_path = last.before

\* The segments of a member's path as the specification reads it: split at
\* the separator, empty segments dropped.
RECURSIVE NonEmpty(_)
NonEmpty(parts) ==
  IF parts = << >> THEN << >>
  ELSE IF Head(parts) = Empty THEN NonEmpty(Tail(parts))
  ELSE <<Head(parts)>> \o NonEmpty(Tail(parts))

Segments(member) == NonEmpty(Split(member.name, "/"))

\* A member that stands for an entry: its path is neither empty nor '.'.
IsEntry(member) == Segments(member) \notin {<< >>, <<Str(".")>>}

AbsPath(segs) == Slash \o Join(segs, Slash)

Listing(tree, segs) == list_dir(tree, Slash, AbsPath(segs))

InListing(tree, segs, name) ==
  /\ Listing(tree, segs).status = "ok"
  /\ \E i \in 1..Len(Listing(tree, segs).val) : Listing(tree, segs).val[i] = name

ButLast(seq) == SubSeq(seq, 1, Len(seq) - 1)

\* C9 for the archive ms and the tree built from it.
ImpliedDirsExist(ms, tree) ==
  \A i \in 1..Len(ms) :
    ( /\ IsEntry(ms[i])
      /\ Len(Segments(ms[i])) >= 2
      /\ \A j \in 1..Len(ms) : Segments(ms[j]) # ButLast(Segments(ms[i])) )
    => /\ IsDir(tree, get_node(tree, Slash, AbsPath(ButLast(Segments(ms[i])))))
       /\ InListing(tree, ButLast(ButLast(Segments(ms[i]))),
                    Segments(ms[i])[Len(Segments(ms[i])) - 1])
       /\ InListing(tree, ButLast(Segments(ms[i])),
                    Segments(ms[i])[Len(Segments(ms[i]))])

\* C9: when a member has path D/x and no member is an entry for D itself,
\* then in the loaded tree D resolves to a directory, the listing of D's
\* parent holds D's name and the listing of D holds x.
C9_ImpliedDirectories == [][pc = "init" => ImpliedDirsExist(members, root')]_vars

\* The index of the last member whose path is that of member i.
LastWithPath(ms, i) ==
  CHOOSE j \in 1..Len(ms) :
    /\ Segments(ms[j]) = Segments(ms[i])
    /\ \A k \in 1..Len(ms) : Segments(ms[k]) = Segments(ms[i]) => k <= j

\* C10 for the archive ms and the tree built from it.
LastEntryWins(ms, tree) ==
  \A i \in 1..Len(ms) :
    IsEntry(ms[i]) =>
      /\ get_node(tree, Slash, AbsPath(Segments(ms[i]))).k = "node"
      /\ tree[get_node(tree, Slash, AbsPath(Segments(ms[i]))).at].is_dir
           = ms[LastWithPath(ms, i)].isdir
      /\ ~ms[LastWithPath(ms, i)].isdir =>
           tree[get_node(tree, Slash, AbsPath(Segments(ms[i]))).at].content
             = ms[LastWithPath(ms, i)].text

\* C10: every path that is a member's path resolves, in the loaded tree, to
\* a node with the kind and, for a file, the content of the last member
\* with that path.
C10_LastEntryWins == [][pc = "init" => LastEntryWins(members, root')]_vars

\* The normalized absolute form of an absolute path as the specification
\* reads it: empty and '.' segments dropped, each '..' taking back the
\* segment before it (none at the root), one leading separator.
RECURSIVE Collapse(_, _, _)
Collapse(parts, i, acc) ==
  IF i > Len(parts) THEN acc
  ELSE IF parts[i] = Empty \/ parts[i] = Str(".") THEN Collapse(parts, i + 1, acc)
  ELSE IF parts[i] = <<".", ".">>
    THEN Collapse(parts, i + 1, IF acc = << >> THEN acc ELSE ButLast(acc))
  ELSE Collapse(parts, i + 1, Append(acc, parts[i]))

NormalizedAbs(p) == AbsPath(Collapse(Split(p, "/"), 1, << >>))

\* What change_dir(path) is to normalize: the path itself when absolute,
\* else the cursor and the path joined by a separator.
Target(cur, path) == IF IsAbs(path) THEN path ELSE cur \o Slash \o path

\* C11: a change_dir whose path resolves to a directory returns True and
\* leaves in current_path the normalized absolute form of the path (of the
\* old cursor joined with the path when it is relative), and
\* print_working_directory then returns exactly that string.
C11_ChangeDirSetsNormalizedCursor ==
  (IsChangeDir /\ IsDir(root, last.node)) =>
    /\ last.status = "True"
    /\ current_path = NormalizedAbs(Target(last.before, last.path))
    /\ print_working_directory(current_path).val
         = NormalizedAbs(Target(last.before, last.path))

\* The node current_path names when resolved as an absolute path.
CursorNode(tree, cur) == get_node(tree, cur, cur)

\* C12: after any sequence of change_dir calls, current_path resolves, as
\* an absolute path, to a directory of the tree.
C12_CursorIsDirectory == IsDir(root, CursorNode(root, current_path))

\* C13: after a change_dir that returned True, current_path resolves to the
\* very node that get_node(path) gave inside the call.
C13_CursorDenotesResolvedNode ==
  (IsChangeDir /\ last.status = "True")
    => CursorNode(root, current_path) = last.node

\* C14: in the loaded tree no file has a child.
C14_OnlyDirectoriesHaveChildren ==
  \A k \in DOMAIN root : ~root[k].is_dir => Children(root, k) = {}

\* The names a path segment can be that are neither '.', '..' nor empty.
Names == PathSegs \ {Empty, Str("."), <<".", ".">>}

\* The segment sequences a further segment can follow: none at all (the
\* walk is at its start), or those of a path that is not the empty string.
Prefixes == {<< >>} \cup (SeqsUpTo(PathSegs, MaxSegs - 1) \ {<<Empty>>})

PathOf(segs) == Join(segs, Slash)

\* The node `current` of get_node's loop once the segments segs are done.
Reached(tree, cur, segs) ==
  IF segs = << >> THEN CursorNode(tree, cur) ELSE get_node(tree, cur, PathOf(segs))

\* C15: when get_node's walk applies a name segment (not '.', '..' or
\* empty) at a node that is a file, or that has no child of that name, the
\* whole call returns None.
C15_NameStepFailsWholeCall ==
  pc = "prompt" =>
    \A segs \in Prefixes : \A x \in Names :
      ( /\ Reached(root, current_path, segs).k = "node"
        /\ \/ IsFile(root, Reached(root, current_path, segs))
           \/ x \notin Children(root, Reached(root, current_path, segs).at) )
      => get_node(root, current_path, PathOf(Append(segs, x))) = None

\* C16: in the loaded tree no node is named by the empty string, and every
\* node is what its absolute path resolves to.
C16_NoEmptyNamesAllReachable ==
  \A k \in DOMAIN root \ {RootKey} :
    /\ root[k].name # Empty
    /\ get_node(root, Slash, AbsPath(k)) = Node(k)

\* C17: when get_node's walk meets '..' at a node other than the root, it
\* goes on from the node that the directory portion of current_path
\* resolves to, whatever node it was at; so from a cursor that names a
\* node C other than the root, get_node('x/..') for a child x of C is the
\* parent of C.
C17_DotDotGoesToCursorParent ==
  pc = "prompt" =>
    /\ \A segs \in Prefixes :
         ( /\ Reached(root, current_path, segs).k = "node"
           /\ Reached(root, current_path, segs) # Node(RootKey) )
         => get_node(root, current_path, PathOf(Append(segs, <<".", ".">>)))
              = get_node(root, current_path, DirName(current_path))
    /\ ( /\ CursorNode(root, current_path).k = "node"
         /\ CursorNode(root, current_path) # Node(RootKey) )
       => \A x \in Children(root, CursorNode(root, current_path).at) \cap Names :
            get_node(root, current_path, x \o Slash \o <<".", ".">>)
              = Node(ButLast(CursorNode(root, current_path).at))

\* The paths made of k >= 1 segments '..'.
DotDotPaths == {PathOf([i \in 1..k |-> <<".", ".">>]) : k \in 1..MaxSegs}

\* C18: with current_path the root path, a path of one or more '..'
\* segments resolves to the root node, and change_dir on it returns True
\* and leaves current_path the root path.
C18_DotDotAtRootStays ==
  (IsChangeDir /\ last.before = Slash /\ last.path \in DotDotPaths) =>
    /\ last.node = Node(RootKey)
    /\ last.status = "True"
    /\ current_path = Slash

\* C18 witness: change_dir('../..') has been called at the root, returned
\* True and left the cursor at the root.
C18_Witness ==
  /\ IsChangeDir
  /\ last.before = Slash
  /\ last.path = <<".", ".", "/", ".", ".">>
  /\ last.status = "True"
  /\ current_path = Slash
  /\ Children(root, RootKey) # {}

\* C19: in every state get_node('.') is the node current_path resolves to,
\* and change_dir('.') returns True and leaves current_path as it is.
C19_DotIsCursor ==
  pc = "prompt" =>
    /\ get_node(root, current_path, Str(".")) = CursorNode(root, current_path)
    /\ change_dir(root, current_path, Str(".")).status = "True"
    /\ change_dir(root, current_path, Str(".")).val = current_path

\* C20: every path on which a call of get_node calls get_node again is
\* absolute and makes no further such call, so the calls nest at most two
\* deep and every call ends.
C20_SelfCallsOnAbsolutePaths ==
  pc = "prompt" =>
    \A path \in Paths :
      \A q \in SelfCalls(root, current_path, path) :
        IsAbs(q) /\ SelfCalls(root, current_path, q) = {}

\* C20 witness: away from the root, a change_dir with a relative path that
\* holds '..' has returned: its get_node called itself for the cursor and
\* for the cursor's directory portion.
C20_Witness ==
  /\ IsChangeDir
  /\ last.before # Slash
  /\ ~IsAbs(last.path)
  /\ SelfCalls(root, last.before, last.path) = {last.before, DirName(last.before)}
  /\ last.status = "True"

====
